---- MODULE Spec2Model ----
\* DuperMemory: the background service worker (Coordinator) that routes a
\* conversation summary from a ChatGPT tab (Agent A) to a freshly opened Claude
\* tab (Agent B) and the review back, together with the two content scripts
\* as far as they exchange messages with it.
EXTENDS Integers, Sequences, FiniteSets, TLC

\* ---------------------------------------------------------------- bounds

MaxTabs     == 4   \* tab identities the browser hands out in one run
SourceTabs  == {1, 2}   \* the ChatGPT tabs open from the start
MaxCaptures == 2   \* clicks on "Ask another AI" in one run

TabIds == 1..MaxTabs
NoTab  == 0        \* sender.tab absent: senderTabId is undefined (falsy)

\* ------------------------------------------------------------ JS values

EmptyObject == [f \in {} |-> ""]
EmptyMap    == [k \in {} |-> 0]

NoSummary   == [t |-> "undefined", v |-> EmptyObject]   \* message.summary absent
NullSummary == [t |-> "null",      v |-> EmptyObject]
TextSummary == [t |-> "string",    v |-> EmptyObject]
FullSummary ==
    [t |-> "object", v |-> [topic |-> <<"X">>, current_task |-> <<"d", "o", " ", "Y">>]]
BareSummary == [t |-> "object",    v |-> EmptyObject]

ValidSummaries   == {FullSummary, BareSummary}
InvalidSummaries == {NullSummary, TextSummary}
Summaries        == ValidSummaries \cup InvalidSummaries

\* what the completion detector can hand back to runInjectionFlow
Responses == {"", "The answer overlooks an edge case."}

NoBlock == <<>>

\* variant: only the test for a missing summary, `!summary`
InvalidSummary_OnlyMissing(summary) == summary.t \in {"undefined", "null"}

\* !summary || typeof summary !== "object"
InvalidSummary(summary) == summary.t # "object"

\* sendCritiqueToTab: the fixed preamble followed by Claude's text
CritiqueContent(claudeResponse) ==
    <<"Another AI reviewed your answer. Revise your response considering this critique:\n\n",
      claudeResponse>>

\* ----------------------------------------------- texts and extractResponse

\* A text is the sequence of its characters.
\* "Copy"
LineCopy ==
    <<"C", "o", "p", "y">>

\* "Share"
LineShare ==
    <<"S", "h", "a", "r", "e">>

\* "exactly 10"
LineTen ==
    <<"e", "x", "a", "c", "t", "l", "y", " ", "1", "0">>

\* "eleven char"
LineEleven ==
    <<"e", "l", "e", "v", "e", "n", " ", "c", "h", "a", "r">>

\* "This is a real response paragraph that is long enough."
LineLong ==
    <<"T", "h", "i", "s", " ", "i", "s", " ", "a", " ", "r", "e", "a", "l", " ", "r",
      "e", "s", "p", "o", "n", "s", "e", " ", "p", "a", "r", "a", "g", "r", "a", "p",
      "h", " ", "t", "h", "a", "t", " ", "i", "s", " ", "l", "o", "n", "g", " ", "e",
      "n", "o", "u", "g", "h", ".">>

\* "  padded answer \t"
LinePadded ==
    <<" ", " ", "p", "a", "d", "d", "e", "d", " ", "a", "n", "s", "w", "e", "r", " ",
      "\t">>

\* "   "
LineBlank ==
    <<" ", " ", " ">>

\* "Earlier text.\n"
EarlierText ==
    <<"E", "a", "r", "l", "i", "e", "r", " ", "t", "e", "x", "t", ".", "\n">>

TextLines == {LineCopy, LineShare, LineTen, LineEleven, LineLong, LinePadded, LineBlank}

MaxLines == 3   \* lines in the text that follows the snapshot

\* what String.prototype.trim removes
IsSpace(c) == c \in {" ", "\n", "\t"}

RECURSIVE TrimStart(_)
TrimStart(text) ==
    IF text = <<>> \/ ~IsSpace(Head(text)) THEN text ELSE TrimStart(Tail(text))

RECURSIVE TrimEnd(_)
TrimEnd(text) ==
    IF text = <<>> \/ ~IsSpace(text[Len(text)]) THEN text
    ELSE TrimEnd(SubSeq(text, 1, Len(text) - 1))

\* text.trim()
Trim(text) == TrimEnd(TrimStart(text))

\* text.slice(start), 0 <= start
Slice(text, start) == SubSeq(text, start + 1, Len(text))

\* text.split("\n"): the lines, at least one
RECURSIVE Split(_)
Split(text) ==
    IF \E i \in 1..Len(text) : text[i] = "\n"
    THEN LET i == CHOOSE j \in 1..Len(text) :
                     text[j] = "\n" /\ \A k \in 1..(j - 1) : text[k] # "\n"
         IN  <<SubSeq(text, 1, i - 1)>> \o Split(SubSeq(text, i + 1, Len(text)))
    ELSE <<text>>

\* lines.join("\n")
RECURSIVE Join(_)
Join(lines) ==
    IF lines = <<>> THEN <<>>
    ELSE IF Len(lines) = 1 THEN lines[1]
    ELSE lines[1] \o <<"\n">> \o Join(Tail(lines))

\* lines.map((l) => l.trim())
MapTrim(lines) == [i \in 1..Len(lines) |-> Trim(lines[i])]

\* variant: lines of length 10 pass
Meaningful_FromTen(line) == Len(line) >= 10

\* (l) => l.length > 10
Meaningful(line) == Len(line) > 10

extractResponse(beforeText, afterText) ==
    LET raw == Trim(Slice(afterText, Len(beforeText)))
        meaningful == SelectSeq(MapTrim(Split(raw)), Meaningful)
    IN  Trim(Join(meaningful))

\* the texts of up to MaxLines lines, each line ended by "\n"
RECURSIVE UpToLines(_)
UpToLines(n) ==
    IF n = 0 THEN {<<>>}
    ELSE UpToLines(n - 1) \cup
         {Join(<<line>> \o <<rest>>) : line \in TextLines, rest \in UpToLines(n - 1)}

\* the page text at the snapshot, and what it can have become at the last poll:
\* the same text with lines added, or something shorter
\* "Copy\nThis is a real response paragraph that is long enough.\nShare"
ButtonsAroundAnswer == Join(<<LineCopy, LineLong, LineShare>>)

BeforeTexts == {<<>>, EarlierText}
AfterTexts(beforeText) ==
    {beforeText \o added : added \in UpToLines(MaxLines) \cup {ButtonsAroundAnswer}}
        \cup {LineCopy}

\* --------------------------------------------------- the context block

\* the five fields of the object handed to JSON.stringify, in its order
FieldNames == <<"topic", "user_goal", "important_facts", "decisions_made", "current_task">>
TextFields == {"topic", "user_goal", "current_task"}

KeyText(f) ==
    CASE f = "topic"           -> <<"t", "o", "p", "i", "c">>
      [] f = "user_goal"       -> <<"u", "s", "e", "r", "_", "g", "o", "a", "l">>
      [] f = "important_facts" -> <<"i", "m", "p", "o", "r", "t", "a", "n", "t", "_",
                                    "f", "a", "c", "t", "s">>
      [] f = "decisions_made"  -> <<"d", "e", "c", "i", "s", "i", "o", "n", "s", "_",
                                    "m", "a", "d", "e">>
      [] f = "current_task"    -> <<"c", "u", "r", "r", "e", "n", "t", "_", "t", "a", "s", "k">>

\* "I am continuing a conversation from another AI. Here is the structured context:"
IntroLine ==
    <<"I", " ", "a", "m", " ", "c", "o", "n", "t", "i", "n", "u", "i", "n", "g", " ",
      "a", " ", "c", "o", "n", "v", "e", "r", "s", "a", "t", "i", "o", "n", " ", "f",
      "r", "o", "m", " ", "a", "n", "o", "t", "h", "e", "r", " ", "A", "I", ".", " ",
      "H", "e", "r", "e", " ", "i", "s", " ", "t", "h", "e", " ", "s", "t", "r", "u",
      "c", "t", "u", "r", "e", "d", " ", "c", "o", "n", "t", "e", "x", "t", ":">>

\* "Please help me continue with: "
ContinuePrefix ==
    <<"P", "l", "e", "a", "s", "e", " ", "h", "e", "l", "p", " ", "m", "e", " ", "c",
      "o", "n", "t", "i", "n", "u", "e", " ", "w", "i", "t", "h", ":", " ">>

\* "What are your thoughts on the above context?"
GenericQuestion ==
    <<"W", "h", "a", "t", " ", "a", "r", "e", " ", "y", "o", "u", "r", " ", "t", "h",
      "o", "u", "g", "h", "t", "s", " ", "o", "n", " ", "t", "h", "e", " ", "a", "b",
      "o", "v", "e", " ", "c", "o", "n", "t", "e", "x", "t", "?">>

\* JSON.stringify of one character inside a string
Escape(c) ==
    CASE c = "\"" -> <<"\\", "\"">>
      [] c = "\\" -> <<"\\", "\\">>
      [] c = "\n" -> <<"\\", "n">>
      [] c = "\t" -> <<"\\", "t">>
      [] OTHER    -> <<c>>

RECURSIVE EscapeAll(_)
EscapeAll(text) ==
    IF text = <<>> THEN <<>> ELSE Escape(Head(text)) \o EscapeAll(Tail(text))

Quote(text) == <<"\"">> \o EscapeAll(text) \o <<"\"">>

Spaces(n) == [i \in 1..n |-> " "]

RECURSIVE JoinWith(_, _)
JoinWith(parts, separator) ==
    IF parts = <<>> THEN <<>>
    ELSE IF Len(parts) = 1 THEN parts[1]
    ELSE parts[1] \o separator \o JoinWith(Tail(parts), separator)

\* JSON.stringify of an array of strings that sits `indent` spaces deep, space = 2
StringifyList(list, indent) ==
    IF list = <<>> THEN <<"[", "]">>
    ELSE <<"[", "\n">>
         \o JoinWith([i \in 1..Len(list) |-> Spaces(indent + 2) \o Quote(list[i])],
                     <<",", "\n">>)
         \o <<"\n">> \o Spaces(indent) \o <<"]">>

\* one `"key": value` member of the top-level object
StringifyMember(m) ==
    Spaces(2) \o Quote(m.key) \o <<":", " ">>
    \o (IF m.t = "string" THEN Quote(m.v) ELSE StringifyList(m.v, 2))

\* JSON.stringify(object, null, 2), the object given as its members in order
Stringify(members) ==
    IF members = <<>> THEN <<"{", "}">>
    ELSE <<"{", "\n">>
         \o JoinWith([i \in 1..Len(members) |-> StringifyMember(members[i])], <<",", "\n">>)
         \o <<"\n", "}">>

\* summary.f is truthy: present and not the empty string
Truthy(o, f) == f \in DOMAIN o /\ o[f] # <<>>

\* variant: a missing text is written as a question mark
OrText_Placeholder(o, f) == IF Truthy(o, f) THEN o[f] ELSE <<"?">>

\* summary.f || ""   for the text fields
OrText(o, f) == IF Truthy(o, f) THEN o[f] ELSE <<>>

\* summary.f || []   for the list fields (an empty array is truthy)
OrList(o, f) == IF f \in DOMAIN o THEN o[f] ELSE <<>>

\* utils/format.js: the five lines joined by "\n"
formatContextBlock(summary) ==
    LET o == summary.v
        contextJson ==
            Stringify(<<[key |-> KeyText("topic"), t |-> "string", v |-> OrText(o, "topic")],
                        [key |-> KeyText("user_goal"), t |-> "string",
                         v |-> OrText(o, "user_goal")],
                        [key |-> KeyText("important_facts"), t |-> "array",
                         v |-> OrList(o, "important_facts")],
                        [key |-> KeyText("decisions_made"), t |-> "array",
                         v |-> OrList(o, "decisions_made")],
                        [key |-> KeyText("current_task"), t |-> "string",
                         v |-> OrText(o, "current_task")]>>)
        question == IF Truthy(o, "current_task")
                    THEN ContinuePrefix \o o["current_task"]
                    ELSE GenericQuestion
    IN  Join(<<IntroLine, <<>>, contextJson, <<>>, question>>)

\* JSON.parse, for texts of the shape above: an object whose members are
\* strings or arrays of strings
ParseFailure == [ok |-> FALSE, value |-> <<>>, rest |-> <<>>]
Parsed(value, rest) == [ok |-> TRUE, value |-> value, rest |-> rest]

Unescape(c) == CASE c = "n" -> "\n" [] c = "t" -> "\t" [] OTHER -> c

\* the characters of a string, read from behind its opening quote
RECURSIVE ReadString(_, _)
ReadString(text, read) ==
    IF text = <<>> \/ Head(text) \in {"\n", "\t"} THEN ParseFailure
    ELSE IF Head(text) = "\"" THEN Parsed(read, Tail(text))
    ELSE IF Head(text) = "\\"
         THEN IF Len(text) < 2 \/ text[2] \notin {"\"", "\\", "n", "t"} THEN ParseFailure
              ELSE ReadString(SubSeq(text, 3, Len(text)), Append(read, Unescape(text[2])))
    ELSE ReadString(Tail(text), Append(read, Head(text)))

\* the items of an array, read from behind its opening bracket
RECURSIVE ReadItems(_, _)
ReadItems(text, read) ==
    LET item == TrimStart(text)
    IN  IF item = <<>> \/ Head(item) # "\"" THEN ParseFailure
        ELSE LET s == ReadString(Tail(item), <<>>)
                 next == TrimStart(s.rest)
             IN  IF ~s.ok \/ next = <<>> THEN ParseFailure
                 ELSE IF Head(next) = "," THEN ReadItems(Tail(next), Append(read, s.value))
                 ELSE IF Head(next) = "]" THEN Parsed(Append(read, s.value), Tail(next))
                 ELSE ParseFailure

ReadValue(text) ==
    LET value == TrimStart(text)
    IN  IF value = <<>> THEN ParseFailure
        ELSE IF Head(value) = "\""
             THEN LET s == ReadString(Tail(value), <<>>)
                  IN  IF s.ok THEN Parsed([t |-> "string", v |-> s.value], s.rest)
                      ELSE ParseFailure
        ELSE IF Head(value) = "["
             THEN LET inside == TrimStart(Tail(value))
                      items == ReadItems(inside, <<>>)
                  IN  IF inside # <<>> /\ Head(inside) = "]"
                      THEN Parsed([t |-> "array", v |-> <<>>], Tail(inside))
                      ELSE IF items.ok
                           THEN Parsed([t |-> "array", v |-> items.value], items.rest)
                           ELSE ParseFailure
        ELSE ParseFailure

\* the members of an object, read from behind its opening brace
RECURSIVE ReadMembers(_, _)
ReadMembers(text, read) ==
    LET member == TrimStart(text)
    IN  IF member = <<>> \/ Head(member) # "\"" THEN ParseFailure
        ELSE LET key == ReadString(Tail(member), <<>>)
                 colon == TrimStart(key.rest)
             IN  IF ~key.ok \/ colon = <<>> \/ Head(colon) # ":" THEN ParseFailure
                 ELSE LET value == ReadValue(Tail(colon))
                          next == TrimStart(value.rest)
                          all == Append(read, [key |-> key.value, t |-> value.value.t,
                                               v |-> value.value.v])
                      IN  IF ~value.ok \/ next = <<>> THEN ParseFailure
                          ELSE IF Head(next) = "," THEN ReadMembers(Tail(next), all)
                          ELSE IF Head(next) = "}" THEN Parsed(all, Tail(next))
                          ELSE ParseFailure

\* the object at the head of the text and what follows it
JsonParse(text) ==
    LET object == TrimStart(text)
    IN  IF object = <<>> \/ Head(object) # "{" THEN ParseFailure
        ELSE LET inside == TrimStart(Tail(object))
             IN  IF inside # <<>> /\ Head(inside) = "}" THEN Parsed(<<>>, Tail(inside))
                 ELSE ReadMembers(inside, <<>>)

\* the payloads formatContextBlock can be given: every field present or not
MaxFacts == 2   \* entries of important_facts and of decisions_made

\* a"b\c
SpecialText == <<"a", "\"", "b", "\\", "c">>
FactOne == <<"u", "s", "e", " ", "\"", "x", "\"">>
FactTwo == <<"l", "1", "\n", "l", "2">>

FieldTexts == {<<>>, SpecialText}

RECURSIVE FieldLists(_)
FieldLists(n) ==
    IF n = 0 THEN {<<>>}
    ELSE FieldLists(n - 1) \cup
         {Append(list, fact) : list \in {l \in FieldLists(n - 1) : Len(l) = n - 1},
                               fact \in {FactOne, FactTwo}}

Absent == [has |-> FALSE, v |-> <<>>]
Optional(values) == {Absent} \cup {[has |-> TRUE, v |-> x] : x \in values}

Payload(given) ==
    [t |-> "object",
     v |-> [f \in {g \in DOMAIN given : given[g].has} |-> given[f].v]]

Payloads ==
    {Payload([topic |-> a, user_goal |-> b, important_facts |-> c, decisions_made |-> d,
              current_task |-> e]) :
        a \in Optional(FieldTexts), b \in Optional(FieldTexts),
        c \in Optional(FieldLists(MaxFacts)), d \in Optional(FieldLists(MaxFacts)),
        e \in Optional(FieldTexts)}

\* ------------------------------------------------------------------ maps

Put(f, k, v) == [x \in DOMAIN f \cup {k} |-> IF x = k THEN v ELSE f[x]]
Delete(f, k) == [x \in DOMAIN f \ {k} |-> f[x]]

\* ----------------------------------------------------------------- state

VARIABLES
    tabs,            \* tab id -> "none" | "chatgpt" | "claude" | "closed"
    nextTabId,       \* the id the browser gives the next tab
    opener,          \* tab id -> the tab whose Capture opened it (NoTab: the user did)
    pendingContext,  \* background.js: claudeTabId -> {contextBlock, sourceTabId}
    pendingReview,   \* background.js: claudeTabId -> sourceTabId
    createCallbacks, \* chrome.tabs.create callbacks not yet run
    inflight,        \* messages the two agents sent that onMessage has not yet seen
    outbox,          \* chrome.tabs.sendMessage calls not yet delivered
    reply,           \* tab id -> what sendResponse handed to the tab's CLAUDE_READY callback
    agentB,          \* tab id -> position of claude.js in that tab, and its steps so far
    agentA,          \* Claude tab id -> what chatgpt.js did with the critique of that session
    received,        \* tab id -> INJECT_CRITIQUE messages chatgpt.js got there
    sent,            \* Claude tab id -> INJECT_CRITIQUE messages its results caused
    undelivered,     \* Claude tab ids whose critique could not be delivered
    captures,        \* clicks so far
    turn,            \* the listener call of the step just taken (none: another step) and
                     \* what it passed to sendResponse
    history,         \* tab id -> the routing phases its entry went through
    detector,        \* claude.js: the locals of one waitForClaudeResponse call
    polled,          \* what the polls of that call have read so far
    call,            \* a function called on its own: its name and arguments
    returned,        \* what that call returned
    waiting          \* claude.js: one waitForInput call, the page under it, what it did

vars == <<tabs, nextTabId, opener, pendingContext, pendingReview, createCallbacks,
          inflight, outbox, reply, agentB, agentA, received, sent, undelivered,
          captures, turn, history, detector, polled, call, returned, waiting>>

\* the routing steps run no completion detector of their own
aside == <<detector, polled, call, returned, waiting>>

NoCall == [fn |-> "none", args |-> <<>>]

\* waitForInput not called. promise: the state of the promise returned; settled, observing
\* (the observer is connected), timeoutId (the timer is armed): the closure;
\* present: findClaudeInput() would return an element; records: mutation
\* records wait for the observer callback; error: the rejection's message;
\* log: what the page and the call did, in order
NoWait ==
    [promise |-> "none", settled |-> FALSE, observing |-> FALSE, timeoutId |-> FALSE,
     present |-> FALSE, records |-> FALSE, error |-> "", log |-> <<>>]

NoReply   == [type |-> "none",   contextBlock |-> NoBlock]
NullReply == [type |-> "null",   contextBlock |-> NoBlock]
InjectReply(contextBlock) == [type |-> "INJECT", contextBlock |-> contextBlock]

\* a message as the listener sees it: message.type, sender.tab.id and the payload
\* (n tells the clicks of one tab apart while their messages are in flight)
Msg(type, from, n, summary, content) ==
    [type |-> type, from |-> from, n |-> n, summary |-> summary, content |-> content]

NoTurn == [type |-> "none", from |-> NoTab, summary |-> NoSummary, response |-> NoReply]

Phase(pc, pr, t) ==
    IF t \in DOMAIN pc /\ t \in DOMAIN pr THEN "both"
    ELSE IF t \in DOMAIN pc THEN "context"
    ELSE IF t \in DOMAIN pr THEN "review"
    ELSE "absent"

\* history follows the two tables: one more element whenever a tab's phase changes
Track ==
    history' = [t \in TabIds |->
        IF Phase(pendingContext', pendingReview', t) # Phase(pendingContext, pendingReview, t)
        THEN Append(history[t], Phase(pendingContext', pendingReview', t))
        ELSE history[t]]

RoutingInit ==
    /\ tabs = [t \in TabIds |-> IF t \in SourceTabs THEN "chatgpt" ELSE "none"]
    /\ nextTabId = Cardinality(SourceTabs) + 1
    /\ opener = [t \in TabIds |-> NoTab]
    /\ pendingContext = EmptyMap
    /\ pendingReview = EmptyMap
    /\ createCallbacks = {}
    /\ inflight = {}
    /\ outbox = {}
    /\ reply = [t \in TabIds |-> NoReply]
    /\ agentB = [t \in TabIds |-> [pc |-> "none", contextBlock |-> NoBlock, steps |-> <<>>]]
    /\ agentA = [t \in TabIds |-> [pc |-> "none", steps |-> <<>>]]
    /\ received = [t \in TabIds |-> 0]
    /\ sent = [t \in TabIds |-> 0]
    /\ undelivered = {}
    /\ captures = 0
    /\ turn = NoTurn
    /\ history = [t \in TabIds |-> <<>>]

\* ------------------------------------- the completion detector (claude.js)

POLL_MS       == 500
STABLE_NEEDED == 4
MIN_NEW_CHARS == 50
TIMEOUT_MS    == 90000

\* snapshot.length, and by how much scopeEl.innerText is longer at a poll
SnapshotLengths == {0, 1000}
Growths         == {0, 20, 50, 60}
Lengths(snapshotLength) == {snapshotLength + g : g \in Growths}

NoResult == [slicedAt |-> -1, textLength |-> -1]
\* extractResponse(snapshot, currentText), kept as the call: the text is cut at
\* snapshot.length
ExtractCall(snapshotLength, textLength) ==
    [slicedAt |-> snapshotLength, textLength |-> textLength]

NoDetector ==
    [snapshotLength |-> 0, phase |-> 0, lastLength |-> 0, stableCount |-> 0,
     elapsed |-> 0, outcome |-> "none", result |-> NoResult]

\* the locals after `let phase = 1; let lastLength = scopeEl.innerText.length; ...`
StartDetector(snapshotLength, length) ==
    [snapshotLength |-> snapshotLength, phase |-> 1, lastLength |-> length,
     stableCount |-> 0, elapsed |-> 0, outcome |-> "pending", result |-> NoResult]

\* variant: the timeout is looked at in the growth phase only
TimedOut_GrowthOnly(d) == d.phase = 1 /\ d.elapsed >= TIMEOUT_MS

\* variant: one more poll before the timeout
TimedOut_OneLate(d) == d.elapsed > TIMEOUT_MS

\* elapsed >= TIMEOUT_MS
TimedOut(d) == d.elapsed >= TIMEOUT_MS

\* variant: reaching the threshold is enough
Grown_AtThreshold(d, length) == length >= d.snapshotLength + MIN_NEW_CHARS

\* currentText.length > snapshot.length + MIN_NEW_CHARS
Grown(d, length) == length > d.snapshotLength + MIN_NEW_CHARS

\* variant: one stable poll less
Stable_OneShort(stableCount) == stableCount >= STABLE_NEEDED - 1

\* stableCount >= STABLE_NEEDED
Stable(stableCount) == stableCount >= STABLE_NEEDED

\* variant: a changed length is recorded, the count goes on
Changed_KeepsCount(d, length) == [d EXCEPT !.lastLength = length]

\* phase 2, the else branch: stableCount = 0; lastLength = currentText.length
Changed(d, length) == [d EXCEPT !.stableCount = 0, !.lastLength = length]

\* `elapsed += POLL_MS; setTimeout(tick, POLL_MS)`
Again(d) == [d EXCEPT !.elapsed = @ + POLL_MS]

\* one run of tick, with currentText.length = length when it gets to read it
tick(d, length) ==
    IF TimedOut(d)
    THEN [d EXCEPT !.outcome = "rejected"]
    ELSE IF d.phase = 1
    THEN IF Grown(d, length)
         THEN Again([d EXCEPT !.phase = 2, !.lastLength = length])
         ELSE Again(d)
    ELSE IF length = d.lastLength
    THEN IF Stable(d.stableCount + 1)
         THEN [d EXCEPT !.stableCount = @ + 1, !.outcome = "resolved",
                        !.result = ExtractCall(d.snapshotLength, length)]
         ELSE Again([d EXCEPT !.stableCount = @ + 1])
    ELSE Again(Changed(d, length))

\* the reads of the scenario: snapshot length 1000, then these lengths
Scenario == [snapshotLength |-> 1000,
             reads |-> <<1000, 1020, 1060, 1060, 1060, 1060, 1060>>]
ScenarioReads == Scenario.reads

\* nothing read yet. last: the length read last; lost: some change of length
\* threw away stable polls already counted; exceeded: some read was longer than snapshot + MIN_NEW_CHARS;
\* atThreshold: some read was exactly that long; streak: how many of the latest
\* reads in a row had the same length (counted up to STABLE_NEEDED + 1);
\* followed: how many reads of the scenario were made, in order, from the first
\* poll on (-1: the reads left the scenario)
\* reads: how often scopeEl.innerText was evaluated; ticks: how often tick ran
NothingPolled ==
    [last |-> -1, lost |-> FALSE, exceeded |-> FALSE, atThreshold |-> FALSE,
     streak |-> 0, followed |-> 0, reads |-> 0, ticks |-> 0]

\* `let lastLength = scopeEl.innerText.length` in the executor
FirstRead == [NothingPolled EXCEPT !.reads = 1]

Read(p, d, length) ==
    [last        |-> length,
     lost        |-> p.lost \/ (d.phase = 2 /\ length # p.last /\ p.streak > 1),
     exceeded    |-> p.exceeded \/ length > d.snapshotLength + MIN_NEW_CHARS,
     atThreshold |-> p.atThreshold \/ length = d.snapshotLength + MIN_NEW_CHARS,
     streak      |-> IF length # p.last THEN 1
                     ELSE IF p.streak > STABLE_NEEDED THEN p.streak ELSE p.streak + 1,
     followed    |-> IF /\ p.followed >= 0
                        /\ p.followed < Len(ScenarioReads)
                        /\ d.snapshotLength = Scenario.snapshotLength
                        /\ length = ScenarioReads[p.followed + 1]
                     THEN p.followed + 1 ELSE -1,
     reads       |-> p.reads + 1,
     ticks       |-> p.ticks + 1]

\* waitForClaudeResponse(scopeEl, snapshot) is called
DetectorInit ==
    /\ RoutingInit
    /\ \E snapshotLength \in SnapshotLengths :
         \E length \in Lengths(snapshotLength) :
            detector = StartDetector(snapshotLength, length)
    /\ polled = FirstRead
    /\ call = NoCall
    /\ returned = <<>>
    /\ waiting = NoWait

\* setTimeout fires tick
Tick(length) ==
    /\ detector.outcome = "pending"
    /\ length \in Lengths(detector.snapshotLength)
    /\ detector' = tick(detector, length)
    /\ polled' = IF TimedOut(detector) THEN [polled EXCEPT !.ticks = @ + 1]
                 ELSE Read(polled, detector, length)
    /\ UNCHANGED <<call, returned, waiting>>
    /\ UNCHANGED <<tabs, nextTabId, opener, pendingContext, pendingReview, createCallbacks,
                   inflight, outbox, reply, agentB, agentA, received, sent, undelivered,
                   captures, turn, history>>

\* ------------------------------------------- waitForInput (claude.js)

MaxMutations == 4   \* changes of the page during one waitForInput call

\* resolve(el): the first settlement of a promise is the one that counts
Resolve(w, by) ==
    [w EXCEPT !.promise = IF @ = "pending" THEN "resolved" ELSE @,
              !.log = Append(@, by \o ": resolve")]

\* reject(new Error(...))
Reject(w, by) ==
    [w EXCEPT !.promise = IF @ = "pending" THEN "rejected" ELSE @,
              !.error = IF w.promise = "pending"
                        THEN "Claude input field not found after 15 seconds." ELSE @,
              !.log = Append(@, by \o ": reject")]

\* the executor up to its end: resolve(existing), or the observer and the timer
StartWait(existing) ==
    IF existing
    THEN Resolve([NoWait EXCEPT !.promise = "pending", !.present = TRUE], "start")
    ELSE [NoWait EXCEPT !.promise = "pending", !.observing = TRUE, !.timeoutId = TRUE]

\* observer.disconnect(): no callback any more, queued records are dropped
Disconnect(w) == [w EXCEPT !.observing = FALSE, !.records = FALSE]

\* variant: the timer leaves the observer connected
TimeoutDisconnect_Never(w) == w

\* the timer callback's observer.disconnect()
TimeoutDisconnect(w) == Disconnect(w)

\* the MutationObserver callback
observerCallback(w) ==
    IF ~w.present
    THEN [w EXCEPT !.records = FALSE, !.log = Append(@, "observer: nothing")]
    ELSE Resolve([Disconnect(w) EXCEPT !.settled = TRUE, !.timeoutId = FALSE], "observer")

\* the setTimeout callback
timeoutCallback(w) ==
    IF w.settled
    THEN [w EXCEPT !.timeoutId = FALSE, !.log = Append(@, "timer: nothing")]
    ELSE IF w.present
    THEN Resolve([TimeoutDisconnect(w) EXCEPT !.timeoutId = FALSE], "timer")
    ELSE Reject([TimeoutDisconnect(w) EXCEPT !.timeoutId = FALSE], "timer")

PageChanges(w) == Cardinality({i \in 1..Len(w.log) : w.log[i] = "page"})

\* waitForInput() is called on a page with or without the input
InputInit ==
    /\ RoutingInit
    /\ detector = NoDetector
    /\ polled = NothingPolled
    /\ call = NoCall
    /\ returned = <<>>
    /\ \E existing \in BOOLEAN : waiting = StartWait(existing)

unwaited == <<tabs, nextTabId, opener, pendingContext, pendingReview, createCallbacks,
              inflight, outbox, reply, agentB, agentA, received, sent, undelivered,
              captures, turn, history, detector, polled, call, returned>>

\* The page changes: the input is there or not afterwards, and the change is of
\* a kind the observer is told about (childList, subtree) or not (attributes,
\* layout).
PageChange(present, observed) ==
    /\ waiting.promise # "none"
    /\ PageChanges(waiting) < MaxMutations
    /\ waiting' = [waiting EXCEPT !.present = present,
                                  !.records = @ \/ (waiting.observing /\ observed),
                                  !.log = Append(@, "page")]
    /\ UNCHANGED unwaited

\* the observer's callback runs on the records queued for it
ObserverRuns ==
    /\ waiting.observing
    /\ waiting.records
    /\ waiting' = observerCallback(waiting)
    /\ UNCHANGED unwaited

\* the 15 s are over
TimerFires ==
    /\ waiting.timeoutId
    /\ waiting' = timeoutCallback(waiting)
    /\ UNCHANGED unwaited

Init ==
    /\ RoutingInit
    /\ detector = NoDetector
    /\ polled = NothingPolled
    /\ call = NoCall
    /\ returned = <<>>
    /\ waiting = NoWait

\* ------------------------------------------------------------- the user

\* claude.ai is opened by hand: a regular visit, where claude.js runs all the same.
UserOpensClaude ==
    /\ nextTabId <= MaxTabs
    /\ tabs' = [tabs EXCEPT ![nextTabId] = "claude"]
    /\ agentB' = [agentB EXCEPT ![nextTabId].pc = "loading"]
    /\ nextTabId' = nextTabId + 1
    /\ UNCHANGED <<agentA, opener, pendingContext, pendingReview, createCallbacks, inflight, outbox,
                   reply, received, sent, undelivered, captures>>
    /\ turn' = NoTurn
    /\ Track
    /\ UNCHANGED aside

\* Closing a tab ends its content script; nothing tells the Coordinator.
UserClosesTab(t) ==
    /\ tabs[t] \in {"chatgpt", "claude"}
    /\ tabs' = [tabs EXCEPT ![t] = "closed"]
    /\ agentB' = [agentB EXCEPT ![t] =
                    IF tabs[t] = "claude"
                    THEN [pc |-> "closed", contextBlock |-> NoBlock, steps |-> @.steps]
                    ELSE @]
    /\ reply' = [reply EXCEPT ![t] = NoReply]
    /\ UNCHANGED <<agentA, nextTabId, opener, pendingContext, pendingReview, createCallbacks, inflight,
                   outbox, received, sent, undelivered, captures>>
    /\ turn' = NoTurn
    /\ Track
    /\ UNCHANGED aside

\* chatgpt.js handleClick: the summary comes from summarizeConversation(), then
\* chrome.runtime.sendMessage({ type: "CAPTURE", summary }) with no callback.
handleClick(s, summary) ==
    /\ tabs[s] = "chatgpt"
    /\ captures < MaxCaptures
    /\ captures' = captures + 1
    /\ inflight' = inflight \cup {Msg("CAPTURE", s, captures + 1, summary, "")}
    /\ UNCHANGED <<tabs, nextTabId, opener, pendingContext, pendingReview, createCallbacks,
                   outbox, reply, agentB, agentA, received, sent, undelivered>>
    /\ turn' = NoTurn
    /\ Track
    /\ UNCHANGED aside

\* ------------------------------------------------------ the Coordinator

\* handleCapture up to the call of chrome.tabs.create: which diagnostic, if any,
\* ends it early.
CaptureRejected(summary, sourceTabId) ==
    IF InvalidSummary(summary) THEN "invalid summary"
    ELSE IF sourceTabId = NoTab THEN "could not identify source tab"
    ELSE "ok"

\* What the tabs.create callback will find: lastError, or the new tab together
\* with contextBlock and sourceTabId of its closure. The failing callback never
\* reads its closure, so the values are left out of it.
CreateOutcome(created, summary, sourceTabId) ==
    IF created
    THEN [err |-> FALSE, tab |-> nextTabId,
          contextBlock |-> formatContextBlock(summary), sourceTabId |-> sourceTabId]
    ELSE [err |-> TRUE, tab |-> NoTab, contextBlock |-> NoBlock, sourceTabId |-> NoTab]

\* onMessage, message.type === "CAPTURE": handleCapture(message.summary, senderTabId).
\* chrome.tabs.create either opens a tab (the browser picks its id and starts
\* loading claude.ai in it) or fails; its callback runs in a later turn.
HandleCapture(m) ==
    /\ m.type = "CAPTURE"
    /\ IF CaptureRejected(m.summary, m.from) # "ok"
       THEN UNCHANGED <<tabs, nextTabId, opener, createCallbacks, agentB, agentA>>
       ELSE \E created \in BOOLEAN :
              /\ created => nextTabId <= MaxTabs
              /\ createCallbacks' = createCallbacks \cup
                                        {CreateOutcome(created, m.summary, m.from)}
              /\ IF created
                 THEN /\ tabs' = [tabs EXCEPT ![nextTabId] = "claude"]
                      /\ agentB' = [agentB EXCEPT ![nextTabId].pc = "loading"]
                      /\ opener' = [opener EXCEPT ![nextTabId] = m.from]
                      /\ nextTabId' = nextTabId + 1
                 ELSE UNCHANGED <<tabs, nextTabId, opener, agentB, agentA>>
    /\ turn' = [type |-> m.type, from |-> m.from, summary |-> m.summary, response |-> NoReply]
    /\ UNCHANGED <<agentA, pendingContext, pendingReview, outbox, reply, received, sent, undelivered>>

\* variant: the entry names the new tab as its source
CreatedEntry_OwnTab(cb) == [contextBlock |-> cb.contextBlock, sourceTabId |-> cb.tab]

\* the entry the tabs.create callback stores under tab.id
CreatedEntry(cb) == [contextBlock |-> cb.contextBlock, sourceTabId |-> cb.sourceTabId]

\* The chrome.tabs.create callback of handleCapture: with lastError set it only
\* logs, otherwise it stores the entry.
CreateCallback(cb) ==
    /\ cb \in createCallbacks
    /\ pendingContext' = IF cb.err THEN pendingContext
                         ELSE Put(pendingContext, cb.tab, CreatedEntry(cb))
    /\ createCallbacks' = createCallbacks \ {cb}
    /\ UNCHANGED <<tabs, nextTabId, opener, pendingReview, inflight, outbox, reply,
                   agentB, agentA, received, sent, undelivered, captures>>
    /\ turn' = NoTurn
    /\ Track
    /\ UNCHANGED aside

\* senderTabId && pendingContext[senderTabId]
HasContext(senderTabId) == senderTabId # NoTab /\ senderTabId \in DOMAIN pendingContext
\* senderTabId && pendingReview[senderTabId]
HasReview(senderTabId) == senderTabId # NoTab /\ senderTabId \in DOMAIN pendingReview

\* variant: the branch without `delete pendingContext[senderTabId]`
ReadyTables_KeepsContext(senderTabId) ==
    IF HasContext(senderTabId)
    THEN [context |-> pendingContext,
          review  |-> Put(pendingReview, senderTabId, pendingContext[senderTabId].sourceTabId)]
    ELSE [context |-> pendingContext, review |-> pendingReview]

\* variant: the branch without `pendingReview[senderTabId] = entry.sourceTabId`
ReadyTables_SkipsReview(senderTabId) ==
    IF HasContext(senderTabId)
    THEN [context |-> Delete(pendingContext, senderTabId), review |-> pendingReview]
    ELSE [context |-> pendingContext, review |-> pendingReview]

\* variant: a Ready that finds nothing still opens a review entry for its tab
ReadyTables_MissOpensReview(senderTabId) ==
    IF HasContext(senderTabId)
    THEN [context |-> Delete(pendingContext, senderTabId),
          review  |-> Put(pendingReview, senderTabId, pendingContext[senderTabId].sourceTabId)]
    ELSE [context |-> pendingContext,
          review  |-> IF senderTabId = NoTab THEN pendingReview
                      ELSE Put(pendingReview, senderTabId, senderTabId)]

\* CLAUDE_READY: the two tables after the branch
ReadyTables(senderTabId) ==
    IF HasContext(senderTabId)
    THEN [context |-> Delete(pendingContext, senderTabId),
          review  |-> Put(pendingReview, senderTabId, pendingContext[senderTabId].sourceTabId)]
    ELSE [context |-> pendingContext, review |-> pendingReview]

\* variant: the block is read from the oldest entry instead of the sender's
ReadyResponse_OldestEntry(senderTabId) ==
    IF HasContext(senderTabId)
    THEN InjectReply(pendingContext[CHOOSE k \in DOMAIN pendingContext :
                                        \A j \in DOMAIN pendingContext : k <= j].contextBlock)
    ELSE NullReply

\* CLAUDE_READY: the argument of sendResponse
ReadyResponse(senderTabId) ==
    IF HasContext(senderTabId)
    THEN InjectReply(pendingContext[senderTabId].contextBlock)
    ELSE NullReply

\* onMessage, message.type === "CLAUDE_READY". sendResponse runs inside the
\* listener; the answer reaches the callback claude.js of that tab passed with
\* its CLAUDE_READY, if it still waits.
HandleReady(m) ==
    /\ m.type = "CLAUDE_READY"
    /\ pendingContext' = ReadyTables(m.from).context
    /\ pendingReview' = ReadyTables(m.from).review
    /\ reply' = IF m.from \in TabIds /\ agentB[m.from].pc = "awaitReply"
                THEN [reply EXCEPT ![m.from] = ReadyResponse(m.from)]
                ELSE reply
    /\ turn' = [type |-> m.type, from |-> m.from, summary |-> m.summary,
                 response |-> ReadyResponse(m.from)]
    /\ UNCHANGED <<tabs, nextTabId, opener, createCallbacks, outbox, agentB, agentA, received,
                   sent, undelivered>>

\* variant: the branch empties the table
ResponseTable_ClearsAll(senderTabId) ==
    IF HasReview(senderTabId) THEN EmptyMap ELSE pendingReview

\* variant: the branch without `delete pendingReview[senderTabId]`
ResponseTable_KeepsEntry(senderTabId) == pendingReview

\* CLAUDE_RESPONSE: pendingReview after the branch
ResponseTable(senderTabId) ==
    IF HasReview(senderTabId) THEN Delete(pendingReview, senderTabId) ELSE pendingReview

\* variant: without the guard, the critique goes back to the sender
sendCritiqueToTab_Unguarded(senderTabId, claudeResponse) ==
    IF HasReview(senderTabId)
    THEN {[to |-> pendingReview[senderTabId], type |-> "INJECT_CRITIQUE",
           content |-> CritiqueContent(claudeResponse), session |-> senderTabId,
           n |-> sent[senderTabId] + 1]}
    ELSE IF senderTabId = NoTab THEN {}
    ELSE {[to |-> senderTabId, type |-> "INJECT_CRITIQUE",
           content |-> CritiqueContent(claudeResponse), session |-> senderTabId,
           n |-> sent[senderTabId] + 1]}

\* CLAUDE_RESPONSE: the chrome.tabs.sendMessage calls made (sendCritiqueToTab)
sendCritiqueToTab(senderTabId, claudeResponse) ==
    IF HasReview(senderTabId)
    THEN {[to |-> pendingReview[senderTabId], type |-> "INJECT_CRITIQUE",
           content |-> CritiqueContent(claudeResponse), session |-> senderTabId,
           n |-> sent[senderTabId] + 1]}
    ELSE {}

\* onMessage, message.type === "CLAUDE_RESPONSE".
HandleResponse(m) ==
    /\ m.type = "CLAUDE_RESPONSE"
    /\ LET calls == sendCritiqueToTab(m.from, m.content)
       IN  /\ pendingReview' = ResponseTable(m.from)
           /\ outbox' = outbox \cup calls
           /\ sent' = [t \in TabIds |-> sent[t] + Cardinality({c \in calls : c.session = t})]
    /\ turn' = [type |-> m.type, from |-> m.from, summary |-> m.summary, response |-> NoReply]
    /\ UNCHANGED <<tabs, nextTabId, opener, pendingContext, createCallbacks, reply,
                   agentB, agentA, received, undelivered>>

\* the chrome.runtime.onMessage listener
Listener(m) ==
    \/ HandleCapture(m)
    \/ HandleReady(m)
    \/ HandleResponse(m)

\* A message one of the agents sent reaches the listener. Messages of different
\* tabs arrive in any order.
Dispatch(m) ==
    /\ m \in inflight
    /\ inflight' = inflight \ {m}
    /\ Listener(m)
    /\ UNCHANGED captures
    /\ Track
    /\ UNCHANGED aside

\* The listener is open to every context of the extension and looks only at
\* message.type and sender.tab: a message of any kind may arrive from any tab
\* there is, or from a context without a tab.
Senders == {NoTab} \cup {t \in TabIds : tabs[t] # "none"}

OnCapture(from, summary) ==
    /\ from \in Senders
    /\ Listener(Msg("CAPTURE", from, 0, summary, ""))
    /\ UNCHANGED <<inflight, captures>>
    /\ Track
    /\ UNCHANGED aside

OnReady(from) ==
    /\ from \in Senders
    /\ Listener(Msg("CLAUDE_READY", from, 0, NoSummary, ""))
    /\ UNCHANGED <<inflight, captures>>
    /\ Track
    /\ UNCHANGED aside

OnResponse(from, content) ==
    /\ from \in Senders
    /\ Listener(Msg("CLAUDE_RESPONSE", from, 0, NoSummary, content))
    /\ UNCHANGED <<inflight, captures>>
    /\ Track
    /\ UNCHANGED aside

\* variant: the failure branch sends the critique again
AfterDeliveryFailure_Retry(rest, m) == rest \cup {m}

\* What the failure branch of the tabs.sendMessage callback leaves to be
\* delivered: it only warns.
AfterDeliveryFailure(rest, m) == rest

\* chrome.tabs.sendMessage reaches the listener of chatgpt.js in that tab, or its
\* callback finds chrome.runtime.lastError: the tab was closed, or has navigated
\* away and no listener is there.
DeliverCritique(m, reached) ==
    /\ m \in outbox
    /\ reached => tabs[m.to] = "chatgpt"
    /\ IF reached
       THEN /\ received' = [received EXCEPT ![m.to] = @ + 1]
            /\ agentA' = [agentA EXCEPT ![m.session].pc = "received"]
            /\ outbox' = outbox \ {m}
            /\ UNCHANGED undelivered
       ELSE /\ undelivered' = undelivered \cup {m.session}
            /\ outbox' = AfterDeliveryFailure(outbox \ {m}, m)
            /\ UNCHANGED <<received, agentA>>
    /\ UNCHANGED <<tabs, nextTabId, opener, pendingContext, pendingReview, createCallbacks,
                   inflight, reply, agentB, sent, captures>>
    /\ turn' = NoTurn
    /\ Track
    /\ UNCHANGED aside

\* -------------------------------------------------- Agent B (claude.js)

\* chrome.runtime.sendMessage({ type: "CLAUDE_READY" }, callback) at script start
B_Ready(t) ==
    /\ agentB[t].pc = "loading"
    /\ agentB' = [agentB EXCEPT ![t].pc = "awaitReply"]
    /\ inflight' = inflight \cup {Msg("CLAUDE_READY", t, 0, NoSummary, "")}
    /\ UNCHANGED <<agentA, tabs, nextTabId, opener, pendingContext, pendingReview, createCallbacks,
                   outbox, reply, received, sent, undelivered, captures>>
    /\ turn' = NoTurn
    /\ Track
    /\ UNCHANGED aside

\* variant: the callback goes on whatever the reply
NothingToDo_Never(response) == FALSE

\* !response || response.type !== "INJECT" || !response.contextBlock
NothingToDo(response) ==
    response.type # "INJECT" \/ response.contextBlock = NoBlock

\* the CLAUDE_READY callback
B_OnReply(t) ==
    /\ agentB[t].pc = "awaitReply"
    /\ reply[t] # NoReply
    /\ agentB' = [agentB EXCEPT ![t] =
                    IF NothingToDo(reply[t])
                    THEN [pc |-> "idle", contextBlock |-> NoBlock, steps |-> <<>>]
                    ELSE [pc |-> "waitForInput", contextBlock |-> reply[t].contextBlock,
                          steps |-> <<>>]]
    /\ reply' = [reply EXCEPT ![t] = NoReply]
    /\ UNCHANGED <<agentA, tabs, nextTabId, opener, pendingContext, pendingReview, createCallbacks,
                   inflight, outbox, received, sent, undelivered, captures>>
    /\ turn' = NoTurn
    /\ Track
    /\ UNCHANGED aside

\* the CLAUDE_READY callback finds chrome.runtime.lastError: the message reached
\* no listener, and the callback returns
B_ReadyError(t) ==
    /\ agentB[t].pc = "awaitReply"
    /\ reply[t] = NoReply
    /\ Msg("CLAUDE_READY", t, 0, NoSummary, "") \in inflight
    /\ inflight' = inflight \ {Msg("CLAUDE_READY", t, 0, NoSummary, "")}
    /\ agentB' = [agentB EXCEPT ![t].pc = "error"]
    /\ UNCHANGED <<agentA, tabs, nextTabId, opener, pendingContext, pendingReview,
                   createCallbacks, outbox, reply, received, sent, undelivered, captures>>
    /\ turn' = NoTurn
    /\ Track
    /\ UNCHANGED aside

\* what runInjectionFlow does when waitForInput settles, in the order of its
\* statements
InputSteps(found) ==
    IF found THEN <<"input found", "text injected">> ELSE <<>>

\* runInjectionFlow: await waitForInput(), then injectText; a rejection ends the flow
B_Input(t, found) ==
    /\ agentB[t].pc = "waitForInput"
    /\ agentB' = [agentB EXCEPT ![t].pc = IF found THEN "settle" ELSE "failed",
                                ![t].steps = @ \o InputSteps(found)]
    /\ UNCHANGED <<agentA, tabs, nextTabId, opener, pendingContext, pendingReview, createCallbacks,
                   inflight, outbox, reply, received, sent, undelivered, captures>>
    /\ turn' = NoTurn
    /\ Track
    /\ UNCHANGED aside

\* variant: the snapshot is taken after the submission
SubmitSteps_SnapshotLate(submitted) ==
    <<"settled">> \o (IF submitted THEN <<"submitted">> ELSE <<>>) \o <<"snapshot taken">>

\* what runInjectionFlow does when delay(300) is over, in the order of its
\* statements
SubmitSteps(submitted) ==
    <<"settled", "snapshot taken">> \o (IF submitted THEN <<"submitted">> ELSE <<>>)

\* runInjectionFlow: after delay(300) the snapshot is taken and submitClaudeInput
\* is called; no send control throws
B_Submit(t, submitted) ==
    /\ agentB[t].pc = "settle"
    /\ agentB' = [agentB EXCEPT ![t].pc = IF submitted THEN "detecting" ELSE "failed",
                                ![t].steps = @ \o SubmitSteps(submitted)]
    /\ UNCHANGED <<agentA, tabs, nextTabId, opener, pendingContext, pendingReview, createCallbacks,
                   inflight, outbox, reply, received, sent, undelivered, captures>>
    /\ turn' = NoTurn
    /\ Track
    /\ UNCHANGED aside

\* what runInjectionFlow does when waitForClaudeResponse settles
DetectedSteps(timedOut, claudeResponse) ==
    IF timedOut THEN <<>>
    ELSE <<"detected">> \o (IF claudeResponse = "" THEN <<>> ELSE <<"result sent">>)

\* variant: whatever was extracted is sent
ResultMessages_AlsoEmpty(t, timedOut, claudeResponse) ==
    IF timedOut THEN {}
    ELSE {Msg("CLAUDE_RESPONSE", t, 0, NoSummary, claudeResponse)}

\* the CLAUDE_RESPONSE messages runInjectionFlow sends when
\* waitForClaudeResponse settles
ResultMessages(t, timedOut, claudeResponse) ==
    IF timedOut \/ claudeResponse = "" THEN {}
    ELSE {Msg("CLAUDE_RESPONSE", t, 0, NoSummary, claudeResponse)}

\* runInjectionFlow: await waitForClaudeResponse(...) rejects (timeout) or
\* resolves with the extracted text; empty text is not sent back
B_Detected(t, timedOut, claudeResponse) ==
    /\ agentB[t].pc = "detecting"
    /\ agentB' = [agentB EXCEPT ![t].pc = IF timedOut THEN "failed"
                                         ELSE IF claudeResponse = "" THEN "empty"
                                         ELSE "sent",
                                ![t].steps = @ \o DetectedSteps(timedOut, claudeResponse)]
    /\ inflight' = inflight \cup ResultMessages(t, timedOut, claudeResponse)
    /\ UNCHANGED <<agentA, tabs, nextTabId, opener, pendingContext, pendingReview,
                   createCallbacks, outbox, reply, received, sent, undelivered, captures>>
    /\ turn' = NoTurn
    /\ Track
    /\ UNCHANGED aside

\* ------------------------------------------------ Agent A (chatgpt.js)

\* variant: the revised answer is captured again
CritiqueReports_Recapture(t) == {Msg("CAPTURE", opener[t], 0, FullSummary, "")}

\* what chatgpt.js sends to the Coordinator once a critique is submitted: nothing
CritiqueReports(t) == {}

\* the INJECT_CRITIQUE listener calls injectCritique: injectPromptIntoInput
\* fills the input, or finds none and injectCritique throws (caught and logged)
A_Inject(t, injected) ==
    /\ agentA[t].pc = "received"
    /\ agentA' = [agentA EXCEPT ![t] =
                    IF injected
                    THEN [pc |-> "settle", steps |-> @.steps \o <<"critique injected">>]
                    ELSE [pc |-> "failed", steps |-> @.steps]]
    /\ UNCHANGED <<tabs, nextTabId, opener, pendingContext, pendingReview, createCallbacks,
                   inflight, outbox, reply, agentB, received, sent, undelivered, captures>>
    /\ turn' = NoTurn
    /\ Track
    /\ UNCHANGED aside

\* injectCritique after `await delay(300)`: submitInput()
A_Submit(t) ==
    /\ agentA[t].pc = "settle"
    /\ agentA' = [agentA EXCEPT ![t] =
                    [pc |-> "done", steps |-> @.steps \o <<"settled", "submitted">>]]
    /\ inflight' = inflight \cup CritiqueReports(t)
    /\ UNCHANGED <<tabs, nextTabId, opener, pendingContext, pendingReview, createCallbacks,
                   outbox, reply, agentB, received, sent, undelivered, captures>>
    /\ turn' = NoTurn
    /\ Track
    /\ UNCHANGED aside

AgentAStep(t) ==
    \/ \E injected \in BOOLEAN : A_Inject(t, injected)
    \/ A_Submit(t)

\* ------------------------------------------------------- specifications

Callbacks ==
    \/ \E cb \in createCallbacks : CreateCallback(cb)
    \/ \E m \in outbox, reached \in BOOLEAN : DeliverCritique(m, reached)

AgentBStep(t) ==
    \/ B_Ready(t)
    \/ B_ReadyError(t)
    \/ B_OnReply(t)
    \/ \E found \in BOOLEAN : B_Input(t, found)
    \/ \E submitted \in BOOLEAN : B_Submit(t, submitted)
    \/ \E timedOut \in BOOLEAN, r \in Responses : B_Detected(t, timedOut, r)

\* The Coordinator against every sender: any message, from any tab, at any time.
\* (A Capture names a ChatGPT tab or no tab as its sender. The Coordinator sees
\* nothing of a tab being closed but a failed delivery; SystemSpec has the closing.)
Next ==
    \/ \E from \in {NoTab} \cup SourceTabs, summary \in Summaries : OnCapture(from, summary)
    \/ \E from \in {NoTab} \cup TabIds : OnReady(from)
    \/ \E from \in {NoTab} \cup TabIds, content \in Responses \ {""} : OnResponse(from, content)
    \/ Callbacks

Spec == Init /\ [][Next]_vars

\* The Coordinator with the two content scripts as its only senders.
SystemNext ==
    \/ \E s \in TabIds, summary \in Summaries : handleClick(s, summary)
    \/ UserOpensClaude
    \/ \E t \in TabIds : UserClosesTab(t)
    \/ \E m \in inflight : Dispatch(m)
    \/ Callbacks
    \/ \E t \in TabIds : AgentBStep(t)
    \/ \E t \in TabIds : AgentAStep(t)

SystemSpec == Init /\ [][SystemNext]_vars

\* what summarizeConversation() hands to handleClick in these runs: a summary,
\* or nothing usable
ClickSummaries == {FullSummary, NullSummary}

\* The same with every tab left open and no visit by hand.
AgentNext ==
    \/ \E s \in TabIds, summary \in ClickSummaries : handleClick(s, summary)
    \/ \E m \in inflight : Dispatch(m)
    \/ Callbacks
    \/ \E t \in TabIds : AgentBStep(t)
    \/ \E t \in TabIds : AgentAStep(t)

AgentSpec == Init /\ [][AgentNext]_vars

\* ... and every step of the Coordinator, of the browser's callbacks and of
\* claude.js taken in the end: the event loops of the service worker and of the
\* page run what is pending.
LiveSpec ==
    /\ AgentSpec
    /\ WF_vars(\E m \in inflight : Dispatch(m))
    /\ WF_vars(Callbacks)
    /\ \A t \in TabIds : WF_vars(AgentBStep(t))
    /\ \A t \in TabIds : WF_vars(AgentAStep(t))

\* One call of waitForClaudeResponse against every text the page may show at
\* each poll; the timer fires as long as the promise is pending.
DetectorNext == \E length \in Lengths(detector.snapshotLength) : Tick(length)

DetectorSpec == DetectorInit /\ [][DetectorNext]_vars /\ WF_vars(DetectorNext)

\* One call of waitForInput against every course the page may take; the timer
\* fires in the end, and the observer's callback runs when records are queued.
InputNext ==
    \/ \E present, observed \in BOOLEAN : PageChange(present, observed)
    \/ ObserverRuns
    \/ TimerFires

InputSpec ==
    InputInit /\ [][InputNext]_vars /\ WF_vars(ObserverRuns) /\ WF_vars(TimerFires)

\* extractResponse(beforeText, afterText) called on its own
CallExtractResponse(beforeText, afterText) ==
    /\ call = NoCall
    /\ call' = [fn |-> "extractResponse", args |-> <<beforeText, afterText>>]
    /\ returned' = extractResponse(beforeText, afterText)
    /\ UNCHANGED <<tabs, nextTabId, opener, pendingContext, pendingReview, createCallbacks,
                   inflight, outbox, reply, agentB, agentA, received, sent, undelivered,
                   captures, turn, history, detector, polled, waiting>>

\* formatContextBlock(summary) called on its own
CallFormatContextBlock(summary) ==
    /\ call = NoCall
    /\ call' = [fn |-> "formatContextBlock", args |-> <<summary>>]
    /\ returned' = formatContextBlock(summary)
    /\ UNCHANGED <<tabs, nextTabId, opener, pendingContext, pendingReview, createCallbacks,
                   inflight, outbox, reply, agentB, agentA, received, sent, undelivered,
                   captures, turn, history, detector, polled, waiting>>

\* The pure functions of the extension, each applied once to each of its inputs.
FunctionNext ==
    \/ \E summary \in Payloads : CallFormatContextBlock(summary)
    \/ \E beforeText \in BeforeTexts :
          \E afterText \in AfterTexts(beforeText) :
             CallExtractResponse(beforeText, afterText)

FunctionSpec == Init /\ [][FunctionNext]_vars

\* --------------------------------------------------------------- routing

IsPrefix(s, t) == Len(s) <= Len(t) /\ \A i \in 1..Len(s) : s[i] = t[i]

Lifecycle == <<"context", "review", "absent">>

\* the listener call of the step just taken
Handled(type, from) == turn.type = type /\ turn.from = from

\* C1: no Claude tab id is a key of pendingContext and of pendingReview at once,
\* whatever Capture, Ready and Result messages and callbacks have run so far.
C1_TablesDisjoint == DOMAIN pendingContext \cap DOMAIN pendingReview = {}

\* one session awaits review while another still awaits injection
C1_Witness ==
    \E a \in DOMAIN pendingContext, b \in DOMAIN pendingReview : a # b

\* C2: a Ready from a tab that has a pendingContext entry removes exactly that
\* entry, stores the entry's sourceTabId under the same tab in pendingReview, and
\* passes to sendResponse, within the same listener call, { type: "INJECT" } with
\* exactly the contextBlock that was stored.
C2_ReadyHit ==
    [][\A t \in TabIds :
         (turn'.type = "CLAUDE_READY" /\ turn'.from = t /\ t \in DOMAIN pendingContext)
         => /\ pendingContext' = Delete(pendingContext, t)
            /\ pendingReview' = Put(pendingReview, t, pendingContext[t].sourceTabId)
            /\ turn'.response = InjectReply(pendingContext[t].contextBlock)]_vars

\* a Ready was just answered with a block while another session still waits
C2_Witness ==
    /\ turn.type = "CLAUDE_READY"
    /\ turn.response.type = "INJECT"
    /\ turn.from \in DOMAIN pendingReview
    /\ \E other \in DOMAIN pendingContext :
          pendingContext[other].contextBlock # turn.response.contextBlock

\* C3: a Ready from a tab without a pendingContext entry (a regular visit, a
\* repeated Ready, or a Ready that the tabs.create callback has not yet caught up
\* with) is answered with null and leaves both tables as they were.
C3_ReadyMiss ==
    [][\A f \in {NoTab} \cup TabIds :
         (turn'.type = "CLAUDE_READY" /\ turn'.from = f /\ ~HasContext(f))
         => /\ turn'.response = NullReply
            /\ UNCHANGED <<pendingContext, pendingReview, createCallbacks, outbox>>]_vars

\* the race: null was just answered to a tab whose tabs.create callback is pending
C3_Witness ==
    /\ turn.type = "CLAUDE_READY"
    /\ turn.response = NullReply
    /\ \E cb \in createCallbacks : cb.tab = turn.from /\ ~cb.err

\* C4: a Result from a tab that has a pendingReview entry removes that entry and
\* makes exactly one tabs.sendMessage call: an INJECT_CRITIQUE to the sourceTabId
\* recorded for that tab, which is the tab whose Capture opened it.
C4_ResultHit ==
    [][\A t \in TabIds :
         (turn'.type = "CLAUDE_RESPONSE" /\ turn'.from = t /\ t \in DOMAIN pendingReview)
         => /\ pendingReview' = Delete(pendingReview, t)
            /\ UNCHANGED pendingContext
            /\ outbox \subseteq outbox'
            /\ Cardinality(outbox' \ outbox) = 1
            /\ \A c \in outbox' \ outbox :
                  /\ c.type = "INJECT_CRITIQUE"
                  /\ c.to = pendingReview[t]
                  /\ c.to = opener[t]
                  /\ c.session = t
            /\ sent' = [sent EXCEPT ![t] = @ + 1]]_vars

\* a Result was just routed while a session of another source tab awaits review
C4_Witness ==
    /\ turn.type = "CLAUDE_RESPONSE"
    /\ turn.from \in TabIds
    /\ \E c \in outbox : c.session = turn.from /\ c.to = opener[turn.from]
    /\ \E other \in DOMAIN pendingReview : pendingReview[other] # opener[turn.from]

\* C5: a Result from a tab without a pendingReview entry (no session, a session
\* still awaiting injection, or one already completed) sends nothing and leaves
\* both tables as they were.
C5_ResultMiss ==
    [][\A f \in {NoTab} \cup TabIds :
         (turn'.type = "CLAUDE_RESPONSE" /\ turn'.from = f /\ ~HasReview(f))
         => UNCHANGED <<pendingContext, pendingReview, outbox, sent>>]_vars

\* a Result was just handled from a tab whose session still awaits injection
C5_Witness ==
    /\ turn.type = "CLAUDE_RESPONSE"
    /\ turn.from \in DOMAIN pendingContext
    /\ sent[turn.from] = 0

\* C6 (amended): the routing entry of a Claude tab goes through context, review,
\* absent in this order, each at most once; it never steps back and never
\* re-enters a phase it left.
C6_LifecycleInOrder == \A t \in TabIds : IsPrefix(history[t], Lifecycle)

\* a session went through the whole lifecycle
C6_Witness == \E t \in TabIds : history[t] = Lifecycle /\ agentB[t].pc = "sent"

\* C6 as stated: moreover the entry is deleted exactly once, also when the
\* session is abandoned (here: the injection flow of its tab gave up).
C6_DeletedExactlyOnce ==
    \A t \in TabIds :
        /\ IsPrefix(history[t], Lifecycle)
        /\ agentB[t].pc \in {"failed", "empty"} => history[t] = Lifecycle

\* C7: whenever the Coordinator has just answered the Ready of a tab that a
\* Capture opened, the tabs.create callback of that Capture has run before (the
\* entry was created before the Ready was served).
C7_ReadyAfterEntry ==
    \A t \in TabIds :
        (Handled("CLAUDE_READY", t) /\ opener[t] # NoTab)
        => ~\E cb \in createCallbacks : cb.tab = t

\* the context block reached claude.js of tab t
ContextDelivered(t) == agentB[t].contextBlock # NoBlock

\* an INJECT_CRITIQUE of session t reached chatgpt.js of the capturing tab
CritiqueDelivered(t) ==
    /\ sent[t] > 0
    /\ t \notin undelivered
    /\ ~\E c \in outbox : c.session = t

\* the assumptions of C8 do not hold of session t: its Ready reached no listener,
\* the injection flow gave up or extracted no text, or the capturing tab could
\* not be reached
Excused(t) == agentB[t].pc \in {"error", "failed", "empty"} \/ t \in undelivered

\* C8: under fairness, every tab a Capture opened gets its context block and its
\* critique reaches the capturing tab, unless the flow in the tab gave up, found
\* no text, or the capturing tab could not be reached.
C8_EventuallyRouted ==
    \A t \in TabIds :
        (opener[t] # NoTab) ~> (Excused(t) \/ (ContextDelivered(t) /\ CritiqueDelivered(t)))

\* C9: a Capture whose summary is missing or not an object, or whose sender has
\* no tab, opens no tab and creates no routing entry; the listener takes the
\* next message all the same.
C9_RejectedCapture ==
    /\ [][(turn'.type = "CAPTURE" /\ (turn'.summary \notin ValidSummaries \/ turn'.from = NoTab))
          => UNCHANGED <<tabs, nextTabId, opener, createCallbacks, pendingContext,
                         pendingReview, outbox, history>>]_vars
    /\ []((turn.type = "CAPTURE" /\ (turn.summary \notin ValidSummaries \/ turn.from = NoTab))
          => \A s \in SourceTabs : ENABLED OnCapture(s, FullSummary))

\* a malformed Capture was just rejected while a session is under way
C9_Witness ==
    /\ turn.type = "CAPTURE"
    /\ turn.from \in SourceTabs
    /\ turn.summary \in InvalidSummaries
    /\ DOMAIN pendingContext # {}

\* C10: once the delivery of a session's critique has failed, that critique was
\* sent once and is not sent again, and neither table holds an entry for the
\* session.
C10_DeliveryFailure ==
    \A t \in undelivered :
        /\ sent[t] = 1
        /\ ~\E c \in outbox : c.session = t
        /\ t \notin DOMAIN pendingContext \cup DOMAIN pendingReview

\* after a failed delivery the Coordinator has just served another session
C10_Witness ==
    /\ undelivered # {}
    /\ turn.type = "CLAUDE_READY"
    /\ turn.response.type = "INJECT"
    /\ turn.from \notin undelivered

\* ------------------------------------------------ the completion detector

Threshold == detector.snapshotLength + MIN_NEW_CHARS

\* C11: waitForClaudeResponse resolves only if some earlier poll read a text
\* longer than snapshot.length + MIN_NEW_CHARS; a poll that reads exactly that
\* length leaves it in phase 1.
C11_GrowthBeforeSuccess ==
    /\ [](detector.outcome = "resolved" => polled.exceeded)
    /\ [](detector.phase = 2 => polled.exceeded)
    /\ [][(detector.phase = 1 /\ polled'.last = Threshold) => detector'.phase = 1]_vars

\* resolved after a poll had read exactly the threshold length
C11_Witness ==
    /\ detector.outcome = "resolved"
    /\ polled.atThreshold
    /\ polled.exceeded

\* C12: in phase 2 a poll that reads another length than the one recorded
\* (longer or shorter) leaves stableCount at 0; the count never exceeds the
\* number of latest reads in a row that repeated the recorded length.
C12_ChangeResetsCount ==
    /\ [][(detector.phase = 2 /\ polled'.last # detector.lastLength)
          => (detector'.stableCount = 0 /\ detector'.lastLength = polled'.last
              /\ detector'.outcome = "pending")]_vars
    /\ [](detector.phase = 2 => detector.stableCount < polled.streak)

\* resolved although an earlier change had thrown counted polls away
C12_Witness ==
    /\ detector.outcome = "resolved"
    /\ polled.lost

\* C13: snapshot length 1000 and the reads 1000, 1020, 1060, 1060, 1060, 1060,
\* 1060: the promise is pending up to the sixth read and resolves at the
\* seventh (the fourth 1060 in a row after the one that ended phase 1), with
\* the text cut at offset 1000.
C13_Scenario ==
    /\ (polled.followed >= 0 /\ polled.followed < Len(ScenarioReads))
          => detector.outcome = "pending"
    /\ polled.followed = Len(ScenarioReads)
          => (detector.outcome = "resolved"
              /\ detector.result.slicedAt = Scenario.snapshotLength
              /\ detector.result.textLength = ScenarioReads[Len(ScenarioReads)])

\* the scenario was read to its end
C13_Witness == polled.followed = Len(ScenarioReads)

\* C14: waitForClaudeResponse terminates: it resolves in phase 2 with a result,
\* or it rejects without one, and it rejects at the first tick that finds
\* elapsed >= TIMEOUT_MS, in phase 1 as in phase 2.
C14_Terminates ==
    /\ <>(detector.outcome \in {"resolved", "rejected"})
    /\ [](detector.elapsed <= TIMEOUT_MS)
    /\ [](detector.outcome = "rejected"
            => (detector.elapsed = TIMEOUT_MS /\ detector.result = NoResult))
    /\ [](detector.outcome = "resolved"
            => (detector.phase = 2 /\ detector.result # NoResult))
    /\ [][detector.elapsed >= TIMEOUT_MS => detector'.outcome = "rejected"]_vars

\* timed out in the stability phase, with stable polls counted
C14_Witness ==
    /\ detector.outcome = "rejected"
    /\ detector.phase = 2
    /\ detector.stableCount > 0

\* ------------------------------------------------------- extractResponse

\* the lines of the text beyond the snapshot, trimmed, those longer than 10
LongLines(beforeText, afterText) ==
    LET lines == MapTrim(Split(Slice(afterText, Len(beforeText))))
        keep  == {i \in 1..Len(lines) : Len(lines[i]) > 10}
        nth(k) == CHOOSE i \in keep : Cardinality({j \in keep : j <= i}) = k
    IN  [k \in 1..Cardinality(keep) |-> lines[nth(k)]]

\* C15: extractResponse(before, after) is the text of after beyond
\* before.length, cut into lines, each trimmed, those of length 10 or less
\* dropped, the others joined in their order, and trimmed; of
\* "Copy / This is a real response ... long enough. / Share" it returns the
\* middle line alone.
C15_ExtractResponse ==
    call.fn = "extractResponse"
    => /\ returned = Trim(Join(LongLines(call.args[1], call.args[2])))
       /\ returned # <<>> =>
            \A i \in 1..Len(Split(returned)) :
               /\ Len(Split(returned)[i]) > 10
               /\ Split(returned)[i] = Trim(Split(returned)[i])
       /\ Slice(call.args[2], Len(call.args[1])) = ButtonsAroundAnswer
            => returned = LineLong

\* the answer between two button labels, after an earlier text
C15_Witness ==
    /\ call.fn = "extractResponse"
    /\ call.args = <<EarlierText, EarlierText \o ButtonsAroundAnswer>>
    /\ returned = LineLong

\* the member the JSON text must hold for field f of payload o
ExpectedMember(o, f) ==
    [key |-> KeyText(f),
     t   |-> IF f \in TextFields THEN "string" ELSE "array",
     v   |-> IF f \in DOMAIN o THEN o[f] ELSE <<>>]

\* C17: the block formatContextBlock returns holds, after the intro line and a
\* blank line, a JSON object with exactly the five fields topic, user_goal,
\* important_facts, decisions_made, current_task, in this order, that parses
\* back to the payload's values, a missing field as "" or []; the closing line
\* is "Please help me continue with: " and current_task when that is not empty.
C17_ContextBlockRoundTrip ==
    call.fn = "formatContextBlock"
    => LET o == call.args[1].v
           opening == IntroLine \o <<"\n", "\n">>
           parsed == JsonParse(Slice(returned, Len(opening)))
       IN  /\ IsPrefix(opening, returned)
           /\ parsed.ok
           /\ parsed.value = [i \in 1..5 |-> ExpectedMember(o, FieldNames[i])]
           /\ parsed.rest =
                 <<"\n", "\n">> \o
                 (IF "current_task" \in DOMAIN o /\ o["current_task"] # <<>>
                  THEN ContinuePrefix \o o["current_task"]
                  ELSE GenericQuestion)

\* a payload without topic and important_facts, with quotes, a backslash and a
\* line break in its values, was formatted and its JSON read back
C17_Witness ==
    /\ call.fn = "formatContextBlock"
    /\ DOMAIN call.args[1].v = {"user_goal", "decisions_made", "current_task"}
    /\ call.args[1].v["current_task"] = SpecialText
    /\ call.args[1].v["decisions_made"] = <<FactOne, FactTwo>>
    /\ JsonParse(Slice(returned, Len(IntroLine) + 2)).value[4].v = <<FactOne, FactTwo>>

\* ------------------------------------------------------- the two agents

\* the CLAUDE_RESPONSE messages of tab t that the listener has not yet seen
ResultsInFlight(t) == {m \in inflight : m.type = "CLAUDE_RESPONSE" /\ m.from = t}

\* the steps of runInjectionFlow, in the order of its statements
FlowOrder ==
    <<"input found", "text injected", "settled", "snapshot taken", "submitted",
      "detected", "result sent">>

\* the steps of injectCritique, in the order of its statements
CritiqueOrder == <<"critique injected", "settled", "submitted">>

\* C16: when the text claude.js extracted is empty, it sends no CLAUDE_RESPONSE
\* and stops there without an error, so no INJECT_CRITIQUE is sent for that
\* session, now or later.
C16_EmptyResultDropped ==
    /\ [](\A t \in TabIds :
            agentB[t].pc = "empty"
            => /\ ResultsInFlight(t) = {}
               /\ sent[t] = 0
               /\ ~\E c \in outbox : c.session = t
               /\ agentA[t].pc = "none"
               /\ agentB[t].steps = SubSeq(FlowOrder, 1, 6))
    /\ [][\A t \in TabIds : agentB[t].pc = "empty" => agentB'[t] = agentB[t]]_vars

\* a session ended on an empty text while the Coordinator still holds its entry
C16_Witness ==
    \E t \in TabIds : agentB[t].pc = "empty" /\ t \in DOMAIN pendingReview

\* C18: claude.js injects, submits, polls and sends a CLAUDE_RESPONSE only if
\* the reply to its CLAUDE_READY carried a context block; after a null reply or
\* a messaging error it does nothing more.
C18_NoWorkNoFlow ==
    /\ [](\A t \in TabIds :
            (agentB[t].steps # <<>> \/ ResultsInFlight(t) # {} \/ sent[t] > 0
               \/ agentB[t].pc \in {"waitForInput", "settle", "detecting", "failed",
                                    "empty", "sent"})
            => /\ agentB[t].contextBlock # NoBlock
               /\ \E i \in 1..Len(history[t]) : history[t][i] = "review")
    /\ [](\A t \in TabIds :
            agentB[t].pc \in {"idle", "error"}
            => /\ agentB[t].steps = <<>>
               /\ agentB[t].contextBlock = NoBlock
               /\ ResultsInFlight(t) = {}
               /\ sent[t] = 0)
    /\ [][\A t \in TabIds :
            agentB[t].pc \in {"idle", "error"} => agentB'[t] = agentB[t]]_vars

\* one tab was told there is no work, the Ready of another reached no listener
C18_Witness ==
    \E t, u \in TabIds : agentB[t].pc = "idle" /\ agentB[u].pc = "error"

\* C19: the steps of runInjectionFlow happen in the order input found, text
\* injected, settle delay over, snapshot taken, submission triggered, detector
\* done, CLAUDE_RESPONSE sent; a CLAUDE_RESPONSE is sent only at the end of
\* all of them.
C19_FlowInOrder ==
    \A t \in TabIds :
       /\ IsPrefix(agentB[t].steps, FlowOrder)
       /\ (ResultsInFlight(t) # {} \/ sent[t] > 0) => agentB[t].steps = FlowOrder
       /\ agentB[t].pc = "detecting" => agentB[t].steps = SubSeq(FlowOrder, 1, 5)
       /\ agentB[t].pc = "settle" => agentB[t].steps = SubSeq(FlowOrder, 1, 2)

\* a flow ran to its end and its result was forwarded
C19_Witness ==
    \E t \in TabIds : agentB[t].steps = FlowOrder /\ sent[t] = 1

\* C20: on INJECT_CRITIQUE chatgpt.js injects the critique, waits, then submits,
\* in this order, and sends nothing to the Coordinator; what it started ends
\* there; when the injection fails nothing is submitted.
C20_CritiqueOnce ==
    /\ [](\A t \in TabIds :
            /\ IsPrefix(agentA[t].steps, CritiqueOrder)
            /\ agentA[t].pc = "failed" => agentA[t].steps = <<>>
            /\ agentA[t].pc = "done" => agentA[t].steps = CritiqueOrder
            /\ agentA[t].pc # "none" => (sent[t] = 1 /\ received[opener[t]] > 0))
    /\ [][agentA' # agentA => UNCHANGED <<inflight, captures, tabs>>]_vars
    /\ [][\A t \in TabIds :
            agentA[t].pc \in {"done", "failed"} => agentA'[t] = agentA[t]]_vars

\* one critique was submitted, the injection of another failed
C20_Witness ==
    \E t, u \in TabIds : agentA[t].pc = "done" /\ agentA[u].pc = "failed"

\* ------------------------------------------------- entries and counters

\* the routing entry of tab t in the two tables pc and pr
NoEntry == [phase |-> "absent", sourceTabId |-> NoTab, contextBlock |-> NoBlock]
EntryIn(pc, pr, t) ==
    IF t \in DOMAIN pc
    THEN [phase |-> "context", sourceTabId |-> pc[t].sourceTabId,
          contextBlock |-> pc[t].contextBlock]
    ELSE IF t \in DOMAIN pr
    THEN [phase |-> "review", sourceTabId |-> pr[t], contextBlock |-> NoBlock]
    ELSE NoEntry

\* C21: an entry appears only when a tabs.create callback without error runs,
\* under the id of the tab it opened; it changes only while the listener handles
\* a CLAUDE_READY or a CLAUDE_RESPONSE of the tab that keys it; no other message,
\* no failed creation and no opening or closing of a tab touches the tables; the
\* entry of a closed tab with no result on its way stays for good.
C21_EntryFrame ==
    /\ [][\A t \in TabIds :
            LET before == EntryIn(pendingContext, pendingReview, t)
                after  == EntryIn(pendingContext', pendingReview', t)
            IN  before # after
                => \/ /\ before = NoEntry
                      /\ turn' = NoTurn
                      /\ \E cb \in createCallbacks \ createCallbacks' :
                            /\ ~cb.err
                            /\ cb.tab = t
                            /\ after = [phase |-> "context", sourceTabId |-> cb.sourceTabId,
                                        contextBlock |-> cb.contextBlock]
                   \/ /\ before.phase = "context"
                      /\ turn'.type = "CLAUDE_READY" /\ turn'.from = t
                      /\ after = [phase |-> "review", sourceTabId |-> before.sourceTabId,
                                  contextBlock |-> NoBlock]
                   \/ /\ before.phase = "review"
                      /\ turn'.type = "CLAUDE_RESPONSE" /\ turn'.from = t
                      /\ after = NoEntry]_vars
    /\ [][tabs' # tabs => UNCHANGED <<pendingContext, pendingReview>>]_vars
    /\ [][\A t \in TabIds :
            (/\ tabs[t] = "closed"
             /\ EntryIn(pendingContext, pendingReview, t) # NoEntry
             /\ ~\E m \in inflight : m.type = "CLAUDE_RESPONSE" /\ m.from = t)
            => /\ tabs'[t] = "closed"
               /\ EntryIn(pendingContext', pendingReview', t) # NoEntry
               /\ ~\E m \in inflight' : m.type = "CLAUDE_RESPONSE" /\ m.from = t]_vars

\* a tab was closed with its entry still waiting, and the entry of another tab
\* went its whole way meanwhile
C21_Witness ==
    \E t, u \in TabIds :
       /\ tabs[t] = "closed"
       /\ t \in DOMAIN pendingContext
       /\ history[u] = <<"context", "review", "absent">>

\* the INJECT_CRITIQUE messages the results of the tabs in `sessions` caused
RECURSIVE SumSent(_)
SumSent(sessions) ==
    IF sessions = {} THEN 0
    ELSE LET t == CHOOSE x \in sessions : TRUE
         IN  sent[t] + SumSent(sessions \ {t})

\* the tabs the Captures of tab s opened
OpenedBy(s) == {t \in TabIds : opener[t] = s}

\* C23: whatever messages arrive, a tab is served a context block at most once
\* and its results cause at most one INJECT_CRITIQUE, sent to the tab whose
\* Capture opened it; every tab with an opener was opened by one valid Capture
\* of that opener, one tab per Capture; so a source tab is sent no more
\* INJECT_CRITIQUE messages than it has sent valid Captures.
C23_AtMostOncePerSession ==
    /\ [](\A t \in TabIds : sent[t] <= 1 /\ (sent[t] > 0 => opener[t] \in SourceTabs))
    /\ [](\A s \in SourceTabs : SumSent(OpenedBy(s)) <= Cardinality(OpenedBy(s)))
    /\ [][\A t \in TabIds :
            (turn'.type = "CLAUDE_READY" /\ turn'.from = t /\ turn'.response.type = "INJECT")
            => /\ ~\E i \in 1..Len(history[t]) : history[t][i] = "review"
               /\ \E i \in 1..Len(history'[t]) : history'[t][i] = "review"]_vars
    /\ [][\A c \in outbox' \ outbox :
            /\ turn'.type = "CLAUDE_RESPONSE"
            /\ turn'.from = c.session
            /\ c.to = opener[c.session]
            /\ sent[c.session] = 0
            /\ sent'[c.session] = 1
            /\ outbox' \ outbox = {c}]_vars
    /\ [][sent' # sent => outbox' \ outbox # {}]_vars
    /\ [][opener' # opener
          => /\ turn'.type = "CAPTURE"
             /\ turn'.from \in SourceTabs
             /\ turn'.summary \in ValidSummaries
             /\ \E t \in TabIds : /\ opener[t] = NoTab
                                  /\ opener' = [opener EXCEPT ![t] = turn'.from]]_vars

\* a Result was just handled from a tab whose critique had been sent and
\* delivered before: the repeated Result sent nothing
C23_Witness ==
    /\ turn.type = "CLAUDE_RESPONSE"
    /\ turn.from \in TabIds
    /\ sent[turn.from] = 1
    /\ ~\E c \in outbox : c.session = turn.from
    /\ received[opener[turn.from]] = 1

\* ------------------------------------------------ the detector's budget

\* the reads the ticks made: all but the one in the executor
TickReads == polled.reads - 1

\* C24 (amended): the ticks of waitForClaudeResponse read the scoped text at most
\* TIMEOUT_MS / POLL_MS times, which with the read in the executor makes one
\* more read in all; every tick reads except a last one that rejects; it never
\* resolves before 1 + STABLE_NEEDED ticks have read; phase 2 is never left.
C24_PollBudget ==
    /\ [](TickReads <= TIMEOUT_MS \div POLL_MS)
    /\ [](polled.reads <= TIMEOUT_MS \div POLL_MS + 1)
    /\ [](polled.ticks = IF detector.outcome = "rejected" THEN TickReads + 1 ELSE TickReads)
    /\ [](detector.outcome = "resolved" => TickReads >= 1 + STABLE_NEEDED)
    /\ [](detector.outcome = "pending" => detector.elapsed = TickReads * POLL_MS)
    /\ [][detector.phase = 2 => detector'.phase = 2]_vars

\* timed out in phase 2 after every poll the timeout leaves room for
C24_Witness ==
    /\ detector.outcome = "rejected"
    /\ detector.phase = 2
    /\ TickReads = TIMEOUT_MS \div POLL_MS
    /\ polled.ticks = TickReads + 1

\* C24 as stated: the scoped text is read at most TIMEOUT_MS / POLL_MS times in
\* all.
C24_ReadBudgetAsStated ==
    /\ polled.reads <= TIMEOUT_MS \div POLL_MS
    /\ detector.outcome = "resolved" => TickReads >= 1 + STABLE_NEEDED

\* ----------------------------------------------------------- waitForInput

\* the calls of resolve and reject made so far
Settlements(w) ==
    Cardinality({i \in 1..Len(w.log) :
                    w.log[i] \in {"start: resolve", "observer: resolve",
                                  "timer: resolve", "timer: reject"}})

\* the step just taken was a run of the observer's, or of the timer's, callback
StepOf(by) ==
    /\ Len(waiting'.log) = Len(waiting.log) + 1
    /\ waiting'.log[Len(waiting'.log)] \in {by \o ": nothing", by \o ": resolve", by \o ": reject"}

\* C22: waitForInput settles exactly once whatever the order of page changes,
\* observer callbacks and the timer: an observer callback that finds the input
\* resolves, one that finds none goes on waiting; the timer resolves if the
\* input is there when it fires and rejects with a message if not; resolve and
\* reject are called once in all, and the outcome never changes afterwards.
C22_SettlesOnce ==
    /\ <>(waiting.promise \in {"resolved", "rejected"})
    /\ [](Settlements(waiting) <= 1)
    /\ [](waiting.promise = "pending" <=> Settlements(waiting) = 0)
    /\ [](waiting.promise = "rejected" <=> waiting.error # "")
    /\ [][waiting.promise # "pending"
          => (waiting'.promise = waiting.promise /\ waiting'.error = waiting.error)]_vars
    /\ [][StepOf("observer")
          => IF waiting.present THEN waiting'.promise = "resolved"
             ELSE waiting'.promise = "pending" /\ waiting'.observing /\ waiting'.timeoutId]_vars
    /\ [][StepOf("timer")
          => IF waiting.present THEN waiting'.promise = "resolved"
             ELSE waiting'.promise = "rejected"]_vars

\* an observer callback found nothing, the timer rejected, and the input
\* appeared on the page after that
C22_Witness ==
    /\ waiting.promise = "rejected"
    /\ \E i \in 1..Len(waiting.log) : waiting.log[i] = "observer: nothing"
    /\ waiting.log[Len(waiting.log)] = "page"
    /\ waiting.present

====
